---- MODULE Spec2Model ----
(***************************************************************************)
(* A model of the Mitake SMS client (src/mitake/client.py).                *)
(*                                                                         *)
(* Python strings whose characters matter (response bodies, batch fields,  *)
(* credentials) are sequences of one-character strings; None is the        *)
(* one-element sequence <<"None">>, which no character sequence equals.    *)
(* Python dicts are functions: request dicts have TLA+ strings as keys,    *)
(* the decoder's result has character sequences as keys.                   *)
(***************************************************************************)
EXTENDS Integers, Sequences, FiniteSets, TLC

VARIABLES
  env,          \* os.environ: MITAKE_USERNAME, MITAKE_PASSWORD
  ctor,         \* the arguments __init__ was called with
  client,       \* self.username, self.password, self.base_url
  pc,           \* where the caller of the client stands
  calls,        \* how many calls of public operations have ended
  op,           \* the public operation in progress and its arguments
  endpoint,     \* _make_request's arguments
  method,
  data,
  params,
  i,            \* send_batch_sms: the loop's 1-based index
  batch_lines,  \* send_batch_sms: the lines built so far
  sent,         \* the requests handed to the session during this call
  merges,       \* how often this call put the credentials into params
  response,     \* what the session returned or raised
  decodes,      \* how often this call ran _parse_response
  outcome,      \* what the call returned or raised
  frames,       \* concurrent callers: the locals of each one's call
  heap          \* concurrent callers: the params dicts, by address

vars == <<env, ctor, client, pc, calls, op, endpoint, method, data, params, i,
          batch_lines, sent, merges, response, decodes, outcome, frames,
          heap>>

(***************************************************************************)
(* Bounds of the model.                                                    *)
(***************************************************************************)
MaxBodyLen == 5

MaxBatch == 2

MaxIds == 2

MaxCalls == 2

NumThreads == 2

(***************************************************************************)
(* Python values.                                                          *)
(***************************************************************************)
None == <<"None">>

Truthy(x) == x # None /\ x # <<>>

\* a if a is not None else b
or_not_none(a, b) == IF a # None THEN a ELSE b

\* a or b
Or(a, b) == IF Truthy(a) THEN a ELSE b

EmptyDict == [k \in {} |-> <<>>]

\* d.update(e): the entries of e replace those of d
update(d, e) == e @@ d

\* d.get(k, default)
get(d, k, default) == IF k \in DOMAIN d THEN d[k] ELSE default

NoData == [type |-> "None"]

StrData(s) == [type |-> "str", v |-> s]

DictData(d) == [type |-> "dict", v |-> d]

NL == "\n"

Whitespace == {" ", NL, "\t", "\r"}

\* str(n) for n >= 0
Digit(n) == <<"0", "1", "2", "3", "4", "5", "6", "7", "8", "9">>[n + 1]

RECURSIVE str(_)
str(n) == IF n < 10 THEN <<Digit(n)>> ELSE str(n \div 10) \o <<Digit(n % 10)>>

RECURSIVE lstrip(_)
lstrip(s) == IF s # <<>> /\ Head(s) \in Whitespace THEN lstrip(Tail(s)) ELSE s

RECURSIVE rstrip(_)
rstrip(s) ==
  IF s # <<>> /\ s[Len(s)] \in Whitespace
    THEN rstrip(SubSeq(s, 1, Len(s) - 1))
    ELSE s

\* s.lstrip() in the place of s.strip()
strip_leading_only(s) == lstrip(s)

\* s.strip()
strip(s) == rstrip(lstrip(s))

\* s.startswith(c), s.endswith(c), c in s, for a one-character c
startswith(s, c) == s # <<>> /\ s[1] = c

endswith(s, c) == s # <<>> /\ s[Len(s)] = c

contains(s, c) == \E k \in 1..Len(s) : s[k] = c

\* s.find(c) from position k on, 1-based; 0 when c does not occur
RECURSIVE find(_, _, _)
find(s, c, k) ==
  IF k > Len(s) THEN 0 ELSE IF s[k] = c THEN k ELSE find(s, c, k + 1)

\* s.rfind(c) below position k, 1-based; 0 when c does not occur
RECURSIVE rfind(_, _, _)
rfind(s, c, k) ==
  IF k < 1 THEN 0 ELSE IF s[k] = c THEN k ELSE rfind(s, c, k - 1)

\* s.split(c): every occurrence of c separates two pieces
RECURSIVE split(_, _)
split(s, c) ==
  LET k == find(s, c, 1) IN
  IF k = 0
    THEN <<s>>
    ELSE <<SubSeq(s, 1, k - 1)>> \o split(SubSeq(s, k + 1, Len(s)), c)

\* s.rsplit(c, 1), for s containing c
rsplit_once(s, c) ==
  LET k == rfind(s, c, Len(s)) IN
  <<SubSeq(s, 1, k - 1), SubSeq(s, k + 1, Len(s))>>

\* s.split(c, 1), for s containing c: <<before the first c, after it>>
split_once(s, c) ==
  LET k == find(s, c, 1) IN
  <<SubSeq(s, 1, k - 1), SubSeq(s, k + 1, Len(s))>>

\* sep.join(parts)
RECURSIVE join(_, _)
join(parts, sep) ==
  IF parts = <<>> THEN <<>>
  ELSE IF Len(parts) = 1 THEN parts[1]
  ELSE parts[1] \o sep \o join(Tail(parts), sep)

(***************************************************************************)
(* _parse_response                                                         *)
(***************************************************************************)
ResultKey == <<"r", "e", "s", "u", "l", "t">>

\* line.split(c, 1): one piece when c does not occur, else two
split_max1(s, c) == IF find(s, c, 1) = 0 THEN <<s>> ELSE split_once(s, c)

\* the test of line 101 left out: every line is unpacked
unpacks_every_line(line) == TRUE

\* line 101: the lines whose split is unpacked into key and value
unpacks(line) == contains(line, "=")

\* the value of the first line with the key is kept
store_if_absent(result, key, value) ==
  IF key \in DOMAIN result THEN result ELSE update(result, key :> value)

\* line 103: result[key] = value
store(result, key, value) == update(result, key :> value)

\* the loop of lines 99-103 over the lines left, result being the dict so far
RECURSIVE parse_lines(_, _)
parse_lines(lines, result) ==
  IF lines = <<>> THEN result
  ELSE LET line == strip(Head(lines)) IN
       parse_lines(Tail(lines),
                   IF unpacks(line)
                     THEN LET kv == split_once(line, "=")
                          IN store(result, kv[1], kv[2])
                     ELSE result)

parse_response(text) ==
  LET content == strip(text) IN
  IF startswith(content, "[") /\ endswith(content, "]")
    THEN ResultKey :> content
  ELSE IF contains(content, "=")
    THEN parse_lines(split(content, NL), EmptyDict)
  ELSE ResultKey :> content

\* line 102: "key, value = ..." raises ValueError unless the split gives
\* two pieces; the only statement of _parse_response that can raise on a str
unpack_raises(text) ==
  LET content == strip(text)
      lines == split(content, NL)
  IN /\ ~(startswith(content, "[") /\ endswith(content, "]"))
     /\ contains(content, "=")
     /\ \E n \in 1..Len(lines) :
          /\ unpacks(strip(lines[n]))
          /\ Len(split_max1(strip(lines[n]), "=")) # 2

(***************************************************************************)
(* Inputs.                                                                 *)
(***************************************************************************)
NoneStr == "None"   \* None where the value is a TLA+ string (a URL)

DEFAULT_BASE_URL == "https://smsapi.mitake.com.tw"

CredArgs(v) == {None, <<>>, v}

EnvValues(v) == {None, <<>>, <<"e">> \o v}

UrlArgs == {NoneStr, "http://gw"}

\* the keys of one send_batch_sms entry, each with the value it has when present
FullEntry(message) ==
  [to |-> <<"t">>, message |-> message, message_id |-> <<"x">>,
   send_time |-> <<"s">>, valid_time |-> <<"v">>, dest_name |-> <<"d">>,
   callback_url |-> <<"c">>]

Restrict(f, keys) == [k \in keys |-> f[k]]

OptionalKeys ==
  {{}, {"message_id"}, {"send_time", "dest_name"},
   {"valid_time", "callback_url"},
   {"message_id", "send_time", "valid_time", "dest_name", "callback_url"}}

ValidEntries ==
  {Restrict(FullEntry(m), {"to", "message"} \cup ks) :
     m \in {<<"m">>, <<"$", "$">>}, ks \in OptionalKeys}
  \cup {[to |-> <<"t">>, message |-> <<"m">>, message_id |-> <<>>]}

InvalidEntries ==
  {Restrict(FullEntry(<<"m">>), ks) :
     ks \in {{"to"}, {"message"}, {"message_id", "send_time"}}}

Entries == ValidEntries \cup InvalidEntries

CoreEntries ==
  {Restrict(FullEntry(<<"m">>), ks) :
     ks \in {{"to", "message"}, {"to", "message", "message_id", "dest_name"},
             {"to"}, {"message", "message_id"}}}

SeqsUpTo(S, n) == UNION {[1..k -> S] : k \in 0..n}

AllBatches == SeqsUpTo(Entries, MaxBatch)

CoreBatches == SeqsUpTo(CoreEntries, MaxBatch)

IdLists == SeqsUpTo({<<"a">>, <<"b", "7">>}, MaxIds)

Alphabet == {"a", "=", " ", NL, "[", "]"}

AllBodies == SeqsUpTo(Alphabet, MaxBodyLen)

Statuses == {100, 200, 204, 301, 399, 400, 404, 500}

Texts ==
  {<<>>, <<"o", "k">>, <<"[", "1", "]">>, <<"a", "=", "1", NL>>,
   <<"B", "a", "d", " ", "R", "e", "q", "u", "e", "s", "t">>}

Failures == {<<"t", "i", "m", "e", "o", "u", "t">>, <<"r", "e", "f", "u", "s", "e", "d">>}

Responses ==
  [kind : {"http"}, status : Statuses, text : Texts]
  \cup [kind : {"exception"}, message : Failures]

(***************************************************************************)
(* The state before a call, and before construction.                       *)
(***************************************************************************)
NoOp == [name |-> "none"]

NoResponse == [kind |-> "none"]

NoOutcome == [kind |-> "none"]

NoClient == [username |-> None, password |-> None, base_url |-> NoneStr]

Threads == 1..NumThreads

\* a caller that has not called yet; params is an address of heap, 0 for None
IdleFrame ==
  [pc |-> "idle", op |-> NoOp, endpoint |-> "", method |-> "",
   data |-> NoData, params |-> 0, sent |-> <<>>, response |-> NoResponse,
   outcome |-> NoOutcome]

NoCall ==
  /\ frames = [t \in Threads |-> IdleFrame]
  /\ heap = <<>>
  /\ endpoint = ""
  /\ method = ""
  /\ data = NoData
  /\ params = NoData
  /\ i = 0
  /\ batch_lines = <<>>
  /\ sent = <<>>
  /\ merges = 0
  /\ response = NoResponse
  /\ decodes = 0
  /\ outcome = NoOutcome

Init ==
  /\ env \in [MITAKE_USERNAME : EnvValues(<<"u">>), MITAKE_PASSWORD : EnvValues(<<"p">>)]
  /\ ctor = NoClient
  /\ client = NoClient
  /\ pc = "new"
  /\ calls = 0
  /\ op = NoOp
  /\ NoCall

(***************************************************************************)
(* __init__                                                                *)
(***************************************************************************)
\* lines 28-30: the attributes __init__ assigns
attributes(username, password, base_url) ==
  [username |-> Or(username, env.MITAKE_USERNAME),
   password |-> Or(password, env.MITAKE_PASSWORD),
   base_url |-> IF base_url \notin {NoneStr, ""} THEN base_url ELSE DEFAULT_BASE_URL]

\* line 32
credentials_missing(self) == ~Truthy(self.username) \/ ~Truthy(self.password)

init(username, password, base_url) ==
  /\ pc = "new"
  /\ ctor' = [username |-> username, password |-> password, base_url |-> base_url]
  /\ client' = attributes(username, password, base_url)
  /\ IF credentials_missing(client')
       THEN /\ pc' = "auth_failed"
            /\ outcome' = [kind |-> "AuthenticationError"]
       ELSE /\ pc' = "idle"
            /\ outcome' = outcome
  /\ UNCHANGED <<frames, heap, calls, env, op, endpoint, method, data, params, i, batch_lines,
                 sent, merges, response, decodes>>

Construct ==
  \E username \in CredArgs(<<"u">>), password \in CredArgs(<<"p">>),
     base_url \in UrlArgs :
    init(username, password, base_url)

(***************************************************************************)
(* _make_request                                                           *)
(***************************************************************************)
\* the credentials put in only when the caller passed no params
auth_params_when_none(self, p) ==
  IF p = NoData
    THEN [username |-> self.username, password |-> self.password]
    ELSE p.v

\* lines 51-56: params with the client's credentials put in
auth_params(self, p) ==
  update(IF p = NoData THEN EmptyDict ELSE p.v,
         [username |-> self.username, password |-> self.password])

\* a str body put into a form, like any other data
session_call_str_as_form(verb, url, d, p) ==
  IF verb = "POST"
    THEN [verb |-> "POST", url |-> url,
          data |-> IF d = NoData THEN DictData(EmptyDict)
                   ELSE IF d.type = "str" THEN DictData([data |-> d.v])
                   ELSE d,
          params |-> p]
    ELSE [verb |-> "GET", url |-> url, data |-> NoData,
          params |-> IF d.type = "dict" THEN update(p, d.v) ELSE p]

\* a GET that sends data as its body and leaves params as they are
session_call_get_with_body(verb, url, d, p) ==
  IF verb = "POST"
    THEN IF d.type = "str"
           THEN [verb |-> "POST", url |-> url, data |-> d, params |-> p]
           ELSE [verb |-> "POST", url |-> url,
                 data |-> IF d = NoData THEN DictData(EmptyDict) ELSE d,
                 params |-> p]
    ELSE [verb |-> "GET", url |-> url, data |-> d, params |-> p]

\* lines 59-72: the call of the session, as the request it is given
session_call(verb, url, d, p) ==
  IF verb = "POST"
    THEN IF d.type = "str"
           THEN [verb |-> "POST", url |-> url, data |-> d, params |-> p]
           ELSE [verb |-> "POST", url |-> url,
                 data |-> IF d = NoData THEN DictData(EmptyDict) ELSE d,
                 params |-> p]
    ELSE [verb |-> "GET", url |-> url, data |-> NoData,
          params |-> IF d.type = "dict" THEN update(p, d.v) ELSE p]

\* the request _make_request hands to the session
request(self, ep, verb, d, p) ==
  session_call(verb, self.base_url \o "/" \o ep, d, auth_params(self, p))

\* _make_request reading the environment's credentials again at each call
make_request_rereading_env ==
  /\ pc = "make_request"
  /\ client' =
       [client EXCEPT !.username = Or(env.MITAKE_USERNAME, client.username),
                      !.password = Or(env.MITAKE_PASSWORD, client.password)]
  /\ LET r == request(client', endpoint, method, data, params) IN
       /\ sent' = Append(sent, r)
       /\ params' = DictData(r.params)
       /\ data' = IF r.verb = "POST" THEN r.data ELSE data
  /\ merges' = merges + 1
  /\ pc' = "awaiting"
  /\ UNCHANGED <<frames, heap, calls, env, ctor, op, endpoint, method, i, batch_lines,
                 response, decodes, outcome>>

\* lines 48-72, up to the session's post or get being called
\* params.update changes the dict in place, and line 66 rebinds data
make_request ==
  /\ pc = "make_request"
  /\ LET r == request(client, endpoint, method, data, params) IN
       /\ sent' = Append(sent, r)
       /\ params' = DictData(r.params)
       /\ data' = IF r.verb = "POST" THEN r.data ELSE data
  /\ merges' = merges + 1
  /\ pc' = "awaiting"
  /\ UNCHANGED <<frames, heap, calls, env, ctor, client, op, endpoint, method, i, batch_lines,
                 response, decodes, outcome>>

\* the session's post or get returns a response or raises a RequestException
session_returns(responses) ==
  /\ pc = "awaiting"
  /\ \E r \in responses : response' = r
  /\ pc' = "returned"
  /\ UNCHANGED <<frames, heap, calls, env, ctor, client, op, endpoint, method, data, params, i,
                 batch_lines, sent, merges, decodes, outcome>>

\* status_code > 400
is_http_error_above_400(status_code) == status_code > 400

\* status_code >= 300
is_http_error_from_300(status_code) == status_code >= 300

\* line 75
is_http_error(status_code) == status_code >= 400

\* "HTTP " and ": " of line 77, "Request failed: " of line 85
HttpPrefix == <<"H", "T", "T", "P", " ">>

Colon == <<":", " ">>

FailedPrefix ==
  <<"R", "e", "q", "u", "e", "s", "t", " ", "f", "a", "i", "l", "e", "d", ":", " ">>

\* "Request failed" without str(e)
failure_message_without_cause(e) == FailedPrefix

\* line 85: f"Request failed: {str(e)}"
failure_message(e) == FailedPrefix \o e

\* lines 76-80
APIError(status_code, text) ==
  [kind |-> "APIError",
   message |-> HttpPrefix \o str(status_code) \o Colon \o text,
   status_code |-> status_code,
   response_data |-> text]

\* line 85
MitakeError(e) == [kind |-> "MitakeError", message |-> failure_message(e)]

\* what "return self._parse_response(response)" returns or raises
parse_outcome(text) ==
  IF unpack_raises(text)
    THEN [kind |-> "ValueError", message |-> <<"not enough values to unpack">>]
    ELSE [kind |-> "ok", result |-> parse_response(text)]

\* lines 75-82: APIError is no RequestException, so line 84 does not catch it
check_status ==
  /\ pc = "returned"
  /\ response.kind = "http"
  /\ IF is_http_error(response.status)
       THEN /\ outcome' = APIError(response.status, response.text)
            /\ pc' = "done"
       ELSE /\ outcome' = outcome
            /\ pc' = "parse"
  /\ UNCHANGED <<frames, heap, calls, env, ctor, client, op, endpoint, method, data, params, i,
                 batch_lines, sent, merges, response, decodes>>

\* the request sent again after a RequestException
request_failed_retrying ==
  /\ pc = "returned"
  /\ response.kind = "exception"
  /\ response' = NoResponse
  /\ pc' = "make_request"
  /\ UNCHANGED <<frames, heap, calls, env, ctor, client, op, endpoint, method, data, params,
                 i, batch_lines, sent, merges, decodes, outcome>>

\* lines 84-85
request_failed ==
  /\ pc = "returned"
  /\ response.kind = "exception"
  /\ outcome' = MitakeError(response.message)
  /\ pc' = "done"
  /\ UNCHANGED <<frames, heap, calls, env, ctor, client, op, endpoint, method, data, params, i,
                 batch_lines, sent, merges, response, decodes>>

\* return self._parse_response(response), the last line of each operation
parse ==
  /\ pc = "parse"
  /\ outcome' = parse_outcome(response.text)
  /\ decodes' = decodes + 1
  /\ pc' = "done"
  /\ UNCHANGED <<frames, heap, calls, env, ctor, client, op, endpoint, method, data, params, i,
                 batch_lines, sent, merges, response>>

\* the call is over: the caller has its result or its exception, the call's
\* locals are gone, and the client is ready for the next call
finish ==
  /\ pc = "done"
  /\ pc' = "idle"
  /\ op' = NoOp
  /\ endpoint' = ""
  /\ method' = ""
  /\ data' = NoData
  /\ params' = NoData
  /\ i' = 0
  /\ batch_lines' = <<>>
  /\ sent' = <<>>
  /\ merges' = 0
  /\ response' = NoResponse
  /\ decodes' = 0
  /\ outcome' = NoOutcome
  /\ calls' = calls + 1
  /\ UNCHANGED <<frames, heap, env, ctor, client>>

(***************************************************************************)
(* The public operations.                                                  *)
(***************************************************************************)
\* _make_request(ep, method=verb, data=d, params=p) is entered
call_make_request(ep, verb, d, p) ==
  /\ endpoint' = ep
  /\ method' = verb
  /\ data' = d
  /\ params' = p
  /\ pc' = "make_request"

\* raise ValueError(message)
raise_ValueError(message) ==
  /\ outcome' = [kind |-> "ValueError", message |-> message]
  /\ pc' = "done"

\* msgid and dlvtime put in for every argument other than None
sms_data_if_not_none(to, message, message_id, send_time) ==
  LET base == [dstaddr |-> to, smbody |-> message]
      with_id == IF message_id # None
                   THEN update(base, [msgid |-> message_id]) ELSE base
  IN IF send_time # None
       THEN update(with_id, [dlvtime |-> send_time]) ELSE with_id

\* lines 128-142: "if message_id:" and "if send_time:" are tests of truth
sms_data(to, message, message_id, send_time) ==
  LET base == [dstaddr |-> to, smbody |-> message]
      with_id == IF Truthy(message_id)
                   THEN update(base, [msgid |-> message_id]) ELSE base
  IN IF Truthy(send_time)
       THEN update(with_id, [dlvtime |-> send_time]) ELSE with_id

send_sms(to, message, message_id, send_time) ==
  /\ pc = "idle"
  /\ calls < MaxCalls
  /\ op' = [name |-> "send_sms", to |-> to, message |-> message,
            message_id |-> message_id, send_time |-> send_time]
  /\ call_make_request("api/mtk/SmSend", "POST",
                       DictData(sms_data(to, message, message_id, send_time)),
                       DictData([CharsetURL |-> "UTF8"]))
  /\ UNCHANGED <<frames, heap, calls, env, ctor, client, i, batch_lines, sent, merges, response,
                 decodes, outcome>>

\* line 171
entry_incomplete(msg) == "to" \notin DOMAIN msg \/ "message" \notin DOMAIN msg

\* the message naming the entry by its position counted from 1
incomplete_message_one_based(n) ==
  <<"Message at index ", str(n), " must have 'to' and 'message' keys">>

\* line 172, n being the i of enumerate(messages, 1): the message names i - 1
incomplete_message(n) ==
  <<"Message at index ", str(n - 1), " must have 'to' and 'message' keys">>

\* enumerate(messages) in the place of enumerate(messages, 1)
batch_line_zero_based(n, msg) ==
  LET dd == <<"$", "$">> IN
  get(msg, "message_id", str(n - 1)) \o dd \o msg["to"] \o dd
  \o get(msg, "send_time", <<>>) \o dd \o get(msg, "valid_time", <<>>) \o dd
  \o get(msg, "dest_name", <<>>) \o dd \o get(msg, "callback_url", <<>>) \o dd
  \o msg["message"]

\* lines 174-182, for the entry msg at 1-based position n
batch_line(n, msg) ==
  LET client_id == get(msg, "message_id", str(n))
      dstaddr == msg["to"]
      dlvtime == get(msg, "send_time", <<>>)
      vldtime == get(msg, "valid_time", <<>>)
      destname == get(msg, "dest_name", <<>>)
      resp == get(msg, "callback_url", <<>>)
      smbody == msg["message"]
      dd == <<"$", "$">>
  IN client_id \o dd \o dstaddr \o dd \o dlvtime \o dd \o vldtime \o dd
     \o destname \o dd \o resp \o dd \o smbody

\* messages is None in the place of not messages: false of every list
batch_is_none(messages) == FALSE

\* line 164
batch_empty(messages) == messages = <<>>

\* lines 164-169
send_batch_sms(messages) ==
  /\ pc = "idle"
  /\ calls < MaxCalls
  /\ op' = [name |-> "send_batch_sms", messages |-> messages]
  /\ IF batch_empty(messages)
       THEN /\ raise_ValueError(<<"Messages list cannot be empty">>)
            /\ UNCHANGED <<i, batch_lines>>
       ELSE /\ pc' = "batch_loop"
            /\ i' = 1
            /\ batch_lines' = <<>>
            /\ outcome' = outcome
  /\ UNCHANGED <<frames, heap, calls, env, ctor, client, endpoint, method, data, params, sent,
                 merges, response, decodes>>

\* lines 170-183: one iteration of the loop
batch_iteration ==
  /\ pc = "batch_loop"
  /\ i <= Len(op.messages)
  /\ IF entry_incomplete(op.messages[i])
       THEN /\ raise_ValueError(incomplete_message(i))
            /\ UNCHANGED <<i, batch_lines>>
       ELSE /\ batch_lines' = Append(batch_lines, batch_line(i, op.messages[i]))
            /\ i' = i + 1
            /\ UNCHANGED <<pc, outcome>>
  /\ UNCHANGED <<frames, heap, calls, env, ctor, client, op, endpoint, method, data, params, sent,
                 merges, response, decodes>>

\* lines 186-193: the loop is over
batch_send ==
  /\ pc = "batch_loop"
  /\ i > Len(op.messages)
  /\ call_make_request("api/mtk/SmBulkSend", "POST",
                       StrData(join(batch_lines, <<NL>>)),
                       DictData([Encoding_PostIn |-> "UTF8"]))
  /\ UNCHANGED <<frames, heap, calls, env, ctor, client, op, i, batch_lines, sent, merges,
                 response, decodes, outcome>>

\* line 203
query_account_balance ==
  /\ pc = "idle"
  /\ calls < MaxCalls
  /\ op' = [name |-> "query_account_balance"]
  /\ call_make_request("api/mtk/SmQuery", "GET", NoData, NoData)
  /\ UNCHANGED <<frames, heap, calls, env, ctor, client, i, batch_lines, sent, merges, response,
                 decodes, outcome>>

\* line 216
ids_empty(message_ids) == message_ids = <<>>

\* lines 216-223
query_message_status(message_ids) ==
  /\ pc = "idle"
  /\ calls < MaxCalls
  /\ op' = [name |-> "query_message_status", message_ids |-> message_ids]
  /\ IF ids_empty(message_ids)
       THEN /\ raise_ValueError(<<"Message IDs list cannot be empty">>)
            /\ UNCHANGED <<endpoint, method, data, params>>
       ELSE /\ call_make_request("api/mtk/SmQueryGet", "GET",
                                 DictData([msgid |-> join(message_ids, <<",">>)]),
                                 NoData)
            /\ outcome' = outcome
  /\ UNCHANGED <<frames, heap, calls, env, ctor, client, i, batch_lines, sent, merges, response,
                 decodes>>

(***************************************************************************)
(* The client: construction, then one call after the other.                *)
(***************************************************************************)
SendSms ==
  \E message_id \in CredArgs(<<"x">>), send_time \in CredArgs(<<"s">>) :
    send_sms(<<"t">>, <<"m">>, message_id, send_time)

SendBatchSms == \E messages \in CoreBatches : send_batch_sms(messages)

QueryMessageStatus == \E message_ids \in IdLists : query_message_status(message_ids)

SessionReturns == session_returns(Responses)

Next ==
  \/ Construct
  \/ SendSms
  \/ SendBatchSms
  \/ batch_iteration
  \/ batch_send
  \/ query_account_balance
  \/ QueryMessageStatus
  \/ make_request
  \/ SessionReturns
  \/ check_status
  \/ request_failed
  \/ parse
  \/ finish

Spec == Init /\ [][Next]_vars

(***************************************************************************)
(* The decoder on every body of at most MaxBodyLen characters: a client    *)
(* built from explicit credentials queries the balance, and the gateway    *)
(* answers 200 with any body.                                              *)
(***************************************************************************)
InitReady ==
  /\ env = [MITAKE_USERNAME |-> None, MITAKE_PASSWORD |-> None]
  /\ ctor = [username |-> <<"u">>, password |-> <<"p">>, base_url |-> NoneStr]
  /\ client = [username |-> <<"u">>, password |-> <<"p">>,
               base_url |-> DEFAULT_BASE_URL]
  /\ pc = "idle"
  /\ calls = 0
  /\ op = NoOp
  /\ NoCall

AnyBody == session_returns([kind : {"http"}, status : {200}, text : AllBodies])

NextDecode ==
  \/ query_account_balance
  \/ make_request
  \/ AnyBody
  \/ check_status
  \/ parse

SpecDecode == InitReady /\ [][NextDecode]_vars

(***************************************************************************)
(* send_batch_sms on every list of at most MaxBatch entries, up to the     *)
(* request being handed to the session.                                    *)
(***************************************************************************)
AnyBatch == \E messages \in AllBatches : send_batch_sms(messages)

NextBatch ==
  \/ AnyBatch
  \/ batch_iteration
  \/ batch_send
  \/ make_request

SpecBatch == InitReady /\ [][NextBatch]_vars

(***************************************************************************)
(* NumThreads callers on one client, each making one call.  A caller's     *)
(* locals are its frame; the params dicts are objects of the heap, since   *)
(* lines 56 and 71 change them in place.  A step of a caller is a stretch  *)
(* of its call that touches no dict of the heap more than once, and the    *)
(* callers' steps interleave in every order.                               *)
(***************************************************************************)
Sequential ==
  <<env, ctor, client, pc, calls, op, endpoint, method, data, params, i,
    batch_lines, sent, merges, response, decodes, outcome>>

\* one dict kept from call to call in the place of a new one
params_object_reused(h) == 1

\* line 52: params = {} makes a new dict, at the next address of the heap
params_object(h) == Len(h) + 1

\* caller t enters _make_request; a params dict its operation made
\* (lines 134, 191) is a new object of the heap
enter(t, o, ep, verb, d, p) ==
  /\ heap' = IF p = NoData THEN heap ELSE Append(heap, p.v)
  /\ frames' = [frames EXCEPT ![t] =
                  [@ EXCEPT !.pc = "make_request", !.op = o, !.endpoint = ep,
                            !.method = verb, !.data = d,
                            !.params = IF p = NoData THEN 0 ELSE Len(heap) + 1]]

\* caller t's operation raises ValueError before _make_request
raised(t, o, message) ==
  /\ heap' = heap
  /\ frames' = [frames EXCEPT ![t] =
                  [@ EXCEPT !.pc = "done", !.op = o,
                            !.outcome = [kind |-> "ValueError",
                                         message |-> message]]]

\* lines 128-145
thread_send_sms(t, to, message, message_id, send_time) ==
  /\ frames[t].pc = "idle"
  /\ enter(t, [name |-> "send_sms", to |-> to, message |-> message,
               message_id |-> message_id, send_time |-> send_time],
           "api/mtk/SmSend", "POST",
           DictData(sms_data(to, message, message_id, send_time)),
           DictData([CharsetURL |-> "UTF8"]))
  /\ UNCHANGED Sequential

\* the 1-based position at which the loop of line 170 raises
first_incomplete(messages) ==
  CHOOSE n \in 1..Len(messages) :
    /\ entry_incomplete(messages[n])
    /\ \A m \in 1..(n - 1) : ~entry_incomplete(messages[m])

\* lines 164-194: the loop works on locals only
thread_send_batch_sms(t, messages) ==
  /\ frames[t].pc = "idle"
  /\ LET o == [name |-> "send_batch_sms", messages |-> messages] IN
       IF batch_empty(messages)
         THEN raised(t, o, <<"Messages list cannot be empty">>)
         ELSE IF \E n \in 1..Len(messages) : entry_incomplete(messages[n])
           THEN raised(t, o, incomplete_message(first_incomplete(messages)))
           ELSE enter(t, o, "api/mtk/SmBulkSend", "POST",
                      StrData(join([n \in 1..Len(messages) |->
                                      batch_line(n, messages[n])], <<NL>>)),
                      DictData([Encoding_PostIn |-> "UTF8"]))
  /\ UNCHANGED Sequential

\* line 203
thread_query_account_balance(t) ==
  /\ frames[t].pc = "idle"
  /\ enter(t, [name |-> "query_account_balance"], "api/mtk/SmQuery", "GET",
           NoData, NoData)
  /\ UNCHANGED Sequential

\* lines 216-223
thread_query_message_status(t, message_ids) ==
  /\ frames[t].pc = "idle"
  /\ LET o == [name |-> "query_message_status", message_ids |-> message_ids] IN
       IF ids_empty(message_ids)
         THEN raised(t, o, <<"Message IDs list cannot be empty">>)
         ELSE enter(t, o, "api/mtk/SmQueryGet", "GET",
                    DictData([msgid |-> join(message_ids, <<",">>)]), NoData)
  /\ UNCHANGED Sequential

\* lines 51-56: the credentials are put into caller t's params dict
thread_merge(t) ==
  /\ frames[t].pc = "make_request"
  /\ LET a == IF frames[t].params = 0
                THEN params_object(heap) ELSE frames[t].params
         merged == auth_params(client, IF a \in DOMAIN heap
                                         THEN DictData(heap[a]) ELSE NoData)
     IN /\ heap' = IF a \in DOMAIN heap
                     THEN [heap EXCEPT ![a] = merged]
                     ELSE Append(heap, merged)
        /\ frames' = [frames EXCEPT ![t] =
                        [@ EXCEPT !.pc = "send", !.params = a]]
  /\ UNCHANGED Sequential

\* lines 58-72: line 71 changes the params dict, then the session is called
thread_send(t) ==
  /\ frames[t].pc = "send"
  /\ LET f == frames[t]
         r == session_call(f.method, client.base_url \o "/" \o f.endpoint,
                           f.data, heap[f.params])
     IN /\ heap' = [heap EXCEPT ![f.params] = r.params]
        /\ frames' = [frames EXCEPT ![t] =
                        [@ EXCEPT !.pc = "awaiting", !.sent = <<r>>]]
  /\ UNCHANGED Sequential

\* the session answers caller t
thread_returns(t, responses) ==
  /\ frames[t].pc = "awaiting"
  /\ \E r \in responses :
       frames' = [frames EXCEPT ![t] =
                    [@ EXCEPT !.pc = "returned", !.response = r]]
  /\ UNCHANGED <<heap, Sequential>>

\* what lines 75-85 return or raise for the session's answer
result_of(resp) ==
  IF resp.kind = "exception"
    THEN MitakeError(resp.message)
    ELSE IF is_http_error(resp.status)
      THEN APIError(resp.status, resp.text)
      ELSE parse_outcome(resp.text)

\* lines 75-85: caller t has its result or its exception
thread_result(t) ==
  /\ frames[t].pc = "returned"
  /\ frames' = [frames EXCEPT ![t] =
                  [@ EXCEPT !.pc = "done",
                            !.outcome = result_of(frames[t].response)]]
  /\ UNCHANGED <<heap, Sequential>>

ThreadBatches ==
  {<<>>, <<[to |-> <<"1">>, message |-> <<"h">>]>>, <<[to |-> <<"1">>]>>}

ThreadResponses ==
  {[kind |-> "http", status |-> 200, text |-> <<"a", "=", "1">>],
   [kind |-> "http", status |-> 400, text |-> <<"B", "a", "d">>],
   [kind |-> "exception", message |-> <<"t", "i", "m", "e", "o", "u", "t">>]}

ThreadSendSms(t) ==
  \E message_id \in {None, <<"x">>} :
    thread_send_sms(t, <<"t">>, <<"m">>, message_id, None)

ThreadSendBatchSms(t) ==
  \E messages \in ThreadBatches : thread_send_batch_sms(t, messages)

ThreadQueryMessageStatus(t) ==
  \E message_ids \in {<<>>, <<<<"a">>>>} :
    thread_query_message_status(t, message_ids)

ThreadReturns(t) == thread_returns(t, ThreadResponses)

NextThreads ==
  \E t \in Threads :
    \/ ThreadSendSms(t)
    \/ ThreadSendBatchSms(t)
    \/ thread_query_account_balance(t)
    \/ ThreadQueryMessageStatus(t)
    \/ thread_merge(t)
    \/ thread_send(t)
    \/ ThreadReturns(t)
    \/ thread_result(t)

SpecThreads == InitReady /\ [][NextThreads]_vars

(***************************************************************************)
(* The properties.                                                         *)
(***************************************************************************)
Decoded == pc = "done" /\ outcome.kind = "ok"

\* the call returned a mapping read from key=value lines
DecodedAsKeyValue == Decoded /\ ResultKey \notin DOMAIN outcome.result

\* C1: whenever the trimmed body contains '=', the whole body is decoded as
\* key=value lines, also when the trimmed body starts with '[' and ends
\* with ']'; the bracket rule applies only to bodies without '='.
C1_KeyValueWins ==
  (Decoded /\ contains(strip(response.text), "=")) =>
    outcome.result = parse_lines(split(strip(response.text), NL), EmptyDict)

\* C2: a response with status >= 400 makes the call fail with APIError
\* carrying that status and the raw body, and the decoder does not run on
\* it; the decoder runs only on a response with status below 400.
C2_ErrorStatusRaisesAPIError ==
  /\ (pc = "done" /\ response.kind = "http" /\ response.status >= 400) =>
       /\ outcome.kind = "APIError"
       /\ outcome.status_code = response.status
       /\ outcome.response_data = response.text
       /\ decodes = 0
  /\ (pc = "parse" \/ decodes > 0) =>
       (response.kind = "http" /\ response.status < 400)

C2_Witness ==
  /\ pc = "done"
  /\ op.name = "send_sms"
  /\ response.kind = "http"
  /\ response.status = 400
  /\ outcome.kind = "APIError"
  /\ outcome.response_data = <<"B", "a", "d", " ", "R", "e", "q", "u", "e", "s", "t">>

\* the arguments of the call in progress fail validation
InvalidArguments ==
  \/ /\ op.name = "send_batch_sms"
     /\ \/ Len(op.messages) = 0
        \/ \E n \in 1..Len(op.messages) :
             ~({"to", "message"} \subseteq DOMAIN op.messages[n])
  \/ /\ op.name = "query_message_status"
     /\ Len(op.message_ids) = 0

\* C3: a call with an empty batch, with an entry lacking 'to' or 'message'
\* at any position, or with an empty id list fails with ValueError, and the
\* session is never called during it.
C3_ValidationBeforeNetwork ==
  InvalidArguments =>
    /\ sent = <<>>
    /\ merges = 0
    /\ pc \in {"batch_loop", "done"}
    /\ pc = "done" => outcome.kind = "ValueError"

C3_Witness ==
  /\ pc = "done"
  /\ op.name = "send_batch_sms"
  /\ Len(op.messages) = 2
  /\ {"to", "message"} \subseteq DOMAIN op.messages[1]
  /\ "message" \notin DOMAIN op.messages[2]
  /\ outcome.kind = "ValueError"
  /\ batch_lines # <<>>
  /\ sent = <<>>

\* the reference encoding of a batch: the line of the entry at position n
RefLine(messages, n) ==
  LET msg == messages[n]
      Value(k, default) == IF k \in DOMAIN msg THEN msg[k] ELSE default
  IN join(<<Value("message_id", str(n)), msg["to"], Value("send_time", <<>>),
            Value("valid_time", <<>>), Value("dest_name", <<>>),
            Value("callback_url", <<>>), msg["message"]>>,
          <<"$", "$">>)

\* the lines of the entries 1..n, a newline between two lines, none at the end
RECURSIVE RefBody(_, _)
RefBody(messages, n) ==
  IF n = 0 THEN <<>>
  ELSE RefBody(messages, n - 1) \o (IF n > 1 THEN <<NL>> ELSE <<>>)
       \o RefLine(messages, n)

\* C4: the body of a batch of entries that each have 'to' and 'message' is
\* one line per entry in list order, joined by single newlines; the line of
\* the entry at 1-based position n is message_id (str(n) when absent), to,
\* send_time, valid_time, dest_name, callback_url ('' when absent), message,
\* joined by '$$', each value verbatim.
C4_BatchBodyIsReferenceEncoding ==
  (op.name = "send_batch_sms" /\ ~InvalidArguments) =>
    /\ pc = "batch_loop" =>
         /\ Len(batch_lines) = i - 1
         /\ \A n \in 1..Len(batch_lines) :
              batch_lines[n] = RefLine(op.messages, n)
    /\ pc \in {"make_request", "awaiting"} =>
         data = StrData(RefBody(op.messages, Len(op.messages)))
    /\ pc = "awaiting" =>
         /\ Len(sent) = 1
         /\ sent[1].data = StrData(RefBody(op.messages, Len(op.messages)))

C4_Witness ==
  /\ pc = "awaiting"
  /\ op.name = "send_batch_sms"
  /\ Len(op.messages) = 2
  /\ op.messages[1]["message"] = <<"$", "$">>
  /\ "message_id" \in DOMAIN op.messages[1]
  /\ DOMAIN op.messages[2] = {"to", "message"}
  /\ Len(sent) = 1

Present(x) == x \notin {None, <<>>}

\* the credential the caller asked for: the argument, or the environment's
\* value when the argument is not supplied or empty
Effective(arg, fallback) == IF Present(arg) THEN arg ELSE fallback

\* C5: construction fails with AuthenticationError exactly when username or
\* password is still missing or empty after the environment's values stand
\* in for the arguments not supplied; otherwise each credential is the
\* non-empty argument or else the environment's value, both are non-empty,
\* and no operation runs on a client with a missing credential.
C5_ConstructionChecksCredentials ==
  pc # "new" =>
    LET u == Effective(ctor.username, env.MITAKE_USERNAME)
        p == Effective(ctor.password, env.MITAKE_PASSWORD)
    IN /\ pc = "auth_failed" <=> ~(Present(u) /\ Present(p))
       /\ pc = "auth_failed" => outcome.kind = "AuthenticationError"
       /\ pc # "auth_failed" =>
            /\ client.username = u
            /\ client.password = p
            /\ Len(client.username) > 0
            /\ Len(client.password) > 0
            /\ client.username # None
            /\ client.password # None
       /\ op # NoOp => pc # "auth_failed"

C5_Witness ==
  /\ pc = "awaiting"
  /\ ctor.username = <<>>
  /\ ctor.password = <<"p">>
  /\ env.MITAKE_PASSWORD = <<>>
  /\ client.username = env.MITAKE_USERNAME
  /\ client.password = <<"p">>

\* C6: every request handed to the session has the client's credentials in
\* its query parameters, put there once per call right before the session
\* is called; the operation's own parameters are kept beside them, and no
\* form body has a username or password field.
C6_CredentialsInEveryRequest ==
  /\ merges = Len(sent)
  /\ merges <= 1
  /\ pc = "make_request" =>
       (params.type = "dict" =>
          {"username", "password"} \cap DOMAIN params.v = {})
  /\ \A n \in 1..Len(sent) :
       LET r == sent[n] IN
       /\ {"username", "password"} \subseteq DOMAIN r.params
       /\ r.params["username"] = client.username
       /\ r.params["password"] = client.password
       /\ r.data.type = "dict" =>
            {"username", "password"} \cap DOMAIN r.data.v = {}
       /\ op.name = "send_sms" =>
            DOMAIN r.params = {"CharsetURL", "username", "password"}
       /\ op.name = "send_batch_sms" =>
            DOMAIN r.params = {"Encoding_PostIn", "username", "password"}
       /\ op.name = "query_message_status" =>
            DOMAIN r.params = {"msgid", "username", "password"}
       /\ op.name = "query_account_balance" =>
            DOMAIN r.params = {"username", "password"}

C6_Witness ==
  /\ pc = "awaiting"
  /\ op.name = "query_message_status"
  /\ Len(sent) = 1
  /\ "msgid" \in DOMAIN sent[1].params
  /\ sent[1].params["username"] = <<"e", "u">>
  /\ sent[1].params["password"] = <<"p">>

\* C7 as stated: every response whose status is not 2xx, 1xx and 3xx
\* included, makes the call fail with APIError carrying status and body.
C7_NonSuccessRaisesAPIError ==
  (pc = "done" /\ response.kind = "http"
     /\ response.status \notin 200..299) =>
    /\ outcome.kind = "APIError"
    /\ outcome.status_code = response.status
    /\ outcome.response_data = response.text

\* C7, amended: a response makes the call fail with APIError, carrying the
\* status and the raw body, exactly when its status is >= 400; every
\* response with a status below 400, 1xx and 3xx included, is decoded and
\* returned as the call's result.
C7_ErrorExactlyFrom400 ==
  (pc = "done" /\ response.kind = "http") =>
    /\ outcome.kind \in {"APIError", "ok"}
    /\ outcome.kind = "APIError" <=> response.status >= 400
    /\ outcome.kind = "APIError" =>
         /\ outcome.status_code = response.status
         /\ outcome.response_data = response.text
    /\ outcome.kind = "ok" => decodes = 1

C7_Witness ==
  /\ pc = "done"
  /\ response.kind = "http"
  /\ response.status = 301
  /\ outcome.kind = "ok"
  /\ outcome.result = (<<"a">> :> <<"1">>)

NoEdgeSpace(s) ==
  s = <<>> \/ (s[1] \notin Whitespace /\ s[Len(s)] \notin Whitespace)

\* C8: every key and every value of a mapping decoded from key=value lines
\* has no leading and no trailing whitespace, also around the '='.
C8_KeysAndValuesTrimmed ==
  DecodedAsKeyValue =>
    \A k \in DOMAIN outcome.result :
      NoEdgeSpace(k) /\ NoEdgeSpace(outcome.result[k])

\* the trimmed lines of the trimmed body, as a sequence
TrimmedLines(text) ==
  LET ls == split(strip(text), NL) IN [n \in 1..Len(ls) |-> strip(ls[n])]

\* those of them that contain '='
EqLines(text) ==
  LET ls == TrimmedLines(text) IN
  {ls[n] : n \in {m \in 1..Len(ls) : contains(ls[m], "=")}}

FirstEq(line) ==
  CHOOSE k \in 1..Len(line) :
    line[k] = "=" /\ \A j \in 1..(k - 1) : line[j] # "="

KeyOf(line) == SubSeq(line, 1, FirstEq(line) - 1)

ValueOf(line) == SubSeq(line, FirstEq(line) + 1, Len(line))

\* C9: in a body decoded as key=value, the keys of the mapping are the
\* texts before the first '=' of the lines that contain '=', each value is
\* everything after the first '=' of such a line, and the lines without '='
\* contribute nothing.
C9_SplitOnFirstEquals ==
  DecodedAsKeyValue =>
    LET ls == EqLines(response.text) IN
    /\ DOMAIN outcome.result = {KeyOf(l) : l \in ls}
    /\ \A k \in DOMAIN outcome.result :
         \E l \in ls : KeyOf(l) = k /\ ValueOf(l) = outcome.result[k]
    /\ \A l \in ls :
         (\A l2 \in ls : KeyOf(l2) = KeyOf(l) => l2 = l) =>
           outcome.result[KeyOf(l)] = ValueOf(l)

C9_Witness ==
  /\ DecodedAsKeyValue
  /\ \E k \in DOMAIN outcome.result : contains(outcome.result[k], "=")
  /\ LET ls == TrimmedLines(response.text) IN
     /\ Len(ls) = 2
     /\ ls[1] = <<"[">>
     /\ contains(ls[2], "=")

\* C10 as stated: a body without '=' decodes to the single entry 'result'
\* whose value is the response text as received, also when the body has
\* leading or trailing whitespace.
C10_ResultIsRawText ==
  (Decoded /\ ~contains(response.text, "=")) =>
    outcome.result = (ResultKey :> response.text)

NonSpace(s) == {k \in 1..Len(s) : s[k] \notin Whitespace}

\* s from its first to its last character that is no whitespace
Trimmed(s) ==
  IF NonSpace(s) = {} THEN <<>>
  ELSE SubSeq(s, CHOOSE k \in NonSpace(s) : \A j \in NonSpace(s) : k <= j,
                 CHOOSE k \in NonSpace(s) : \A j \in NonSpace(s) : k >= j)

\* C10, amended: a body without '=' decodes to the single entry 'result'
\* whose value is the response text with its leading and trailing whitespace
\* removed; it is the text as received when the body has neither.
C10_ResultIsTrimmedText ==
  (Decoded /\ ~contains(response.text, "=")) =>
    /\ DOMAIN outcome.result = {ResultKey}
    /\ outcome.result[ResultKey] = Trimmed(response.text)
    /\ NoEdgeSpace(response.text) => outcome.result[ResultKey] = response.text

C10_Witness ==
  /\ Decoded
  /\ ~contains(response.text, "=")
  /\ Len(response.text) = 4
  /\ response.text[1] = " "
  /\ response.text[4] = NL
  /\ outcome.result = (ResultKey :> <<"[", "]">>)

IsText(s) ==
  /\ DOMAIN s = 1..Len(s)
  /\ \A k \in 1..Len(s) : s[k] \in Alphabet \cup {"r", "e", "s", "u", "l", "t"}

\* the trimmed body has no '=' and is not bracketed
FitsNoShape(text) ==
  /\ ~contains(text, "=")
  /\ ~(Trimmed(text) # <<>> /\ Trimmed(text)[1] = "["
         /\ Trimmed(text)[Len(Trimmed(text))] = "]")

\* C11: decoding never raises: every body, empty, blank, made of '=' only,
\* with unbalanced brackets or any mix of lines, decodes to a mapping from
\* strings to strings, and a body that fits no shape to the single entry
\* 'result'.
C11_DecodingIsTotal ==
  (pc = "done" /\ response.kind = "http" /\ response.status < 400) =>
    /\ outcome.kind = "ok"
    /\ decodes = 1
    /\ \A k \in DOMAIN outcome.result : IsText(k) /\ IsText(outcome.result[k])
    /\ FitsNoShape(response.text) => DOMAIN outcome.result = {ResultKey}

C11_Witness ==
  /\ pc = "done"
  /\ response.text = <<"]", "a", NL, "[", " ">>
  /\ outcome.kind = "ok"
  /\ outcome.result = (ResultKey :> <<"]", "a", NL, "[">>)

\* part occurs in whole
Within(part, whole) ==
  \E k \in 0..(Len(whole) - Len(part)) :
    SubSeq(whole, k + 1, k + Len(part)) = part

\* C12: when the session raises a connectivity error, a timeout included,
\* the call fails with MitakeError whose message contains the original
\* message, nothing is decoded and the error is no APIError; an APIError
\* raised for a status >= 400 is never turned into that MitakeError.
C12_TransportFailureIsMitakeError ==
  /\ (pc = "done" /\ response.kind = "exception") =>
       /\ outcome.kind = "MitakeError"
       /\ Within(response.message, outcome.message)
       /\ decodes = 0
  /\ (pc = "done" /\ response.kind = "http" /\ response.status >= 400) =>
       outcome.kind # "MitakeError"
  /\ outcome.kind = "MitakeError" => response.kind = "exception"

C12_Witness ==
  /\ pc = "done"
  /\ op.name = "send_batch_sms"
  /\ response.kind = "exception"
  /\ response.message = <<"t", "i", "m", "e", "o", "u", "t">>
  /\ outcome.kind = "MitakeError"

\* C13: a call hands at most one request to the session, and exactly one
\* when its arguments pass validation, whether it ends in a result, an
\* APIError or a transport failure; nothing is sent a second time.
C13_OneRequestPerCall ==
  /\ Len(sent) <= 1
  /\ pc \in {"awaiting", "returned", "parse"} => Len(sent) = 1
  /\ pc = "done" =>
       /\ Len(sent) = 1 <=> ~InvalidArguments
       /\ Len(sent) = 1 <=> outcome.kind \in {"ok", "APIError", "MitakeError"}
       /\ Len(sent) = 0 <=> outcome.kind = "ValueError"

C13_Witness ==
  /\ pc = "done"
  /\ calls = 1
  /\ op.name = "query_message_status"
  /\ outcome.kind = "MitakeError"
  /\ Len(sent) = 1

\* C14: once the client is constructed, no step of any call, whether the
\* call ends in a result, a validation error, an APIError or a transport
\* failure, changes its username, password or base_url; the environment is
\* not read again.
C14_ClientNeverChanges ==
  [][pc # "new" => client' = client]_vars

C14_Witness ==
  /\ pc = "idle"
  /\ calls = 2
  /\ ctor.username = <<"u">>
  /\ env.MITAKE_USERNAME = <<"e", "u">>
  /\ ctor.password = <<>>
  /\ client = [username |-> <<"u">>, password |-> <<"e", "p">>,
               base_url |-> DEFAULT_BASE_URL]


\* the request a call o of this client dispatches when it runs alone
OwnRequest(o) ==
  CASE o.name = "send_sms" ->
         request(client, "api/mtk/SmSend", "POST",
                 DictData(sms_data(o.to, o.message, o.message_id, o.send_time)),
                 DictData([CharsetURL |-> "UTF8"]))
    [] o.name = "send_batch_sms" ->
         request(client, "api/mtk/SmBulkSend", "POST",
                 StrData(RefBody(o.messages, Len(o.messages))),
                 DictData([Encoding_PostIn |-> "UTF8"]))
    [] o.name = "query_account_balance" ->
         request(client, "api/mtk/SmQuery", "GET", NoData, NoData)
    [] o.name = "query_message_status" ->
         request(client, "api/mtk/SmQueryGet", "GET",
                 DictData([msgid |-> join(o.message_ids, <<",">>)]), NoData)

\* C15: of callers running at once on one client, in every interleaving each
\* hands the session the request its own arguments and the client's
\* credentials determine, and gets the decoding of its own response or its
\* own error; the client itself stays as constructed.
C15_CallsDoNotInterfere ==
  \A t \in Threads :
    /\ frames[t].sent # <<>> => frames[t].sent = <<OwnRequest(frames[t].op)>>
    /\ (frames[t].pc = "done" /\ frames[t].sent # <<>>) =>
         frames[t].outcome = result_of(frames[t].response)
    /\ (frames[t].pc = "done" /\ frames[t].sent = <<>>) =>
         /\ frames[t].outcome.kind = "ValueError"
         /\ frames[t].response = NoResponse
    /\ client = [username |-> <<"u">>, password |-> <<"p">>,
                 base_url |-> DEFAULT_BASE_URL]

\* a status query has put msgid into its params dict and is still in flight
\* when a balance query, entered after it, hands over its own request
C15_Witness ==
  /\ frames[1].op.name = "query_message_status"
  /\ frames[1].pc = "awaiting"
  /\ frames[1].params = 1
  /\ heap[1] = [msgid |-> <<"a">>, username |-> <<"u">>, password |-> <<"p">>]
  /\ frames[2].op.name = "query_account_balance"
  /\ frames[2].pc = "done"
  /\ frames[2].params = 2
  /\ frames[2].sent[1].params = [username |-> <<"u">>, password |-> <<"p">>]
  /\ frames[2].outcome = [kind |-> "ok", result |-> (<<"a">> :> <<"1">>)]

\* the request handed to the session is in sent
Dispatched == pc \in {"awaiting", "returned", "parse", "done"} /\ sent # <<>>

\* the request of a send_sms call: a POST of a form to the single-send
\* endpoint, with msgid exactly when has_id and dlvtime exactly when has_time
SmsRequest(has_id, has_time) ==
  LET r == sent[1] IN
    /\ r.verb = "POST"
    /\ r.url = client.base_url \o "/api/mtk/SmSend"
    /\ r.data.type = "dict"
    /\ DOMAIN r.data.v = {"dstaddr", "smbody"}
                           \cup (IF has_id THEN {"msgid"} ELSE {})
                           \cup (IF has_time THEN {"dlvtime"} ELSE {})
    /\ r.data.v["dstaddr"] = op.to
    /\ r.data.v["smbody"] = op.message
    /\ has_id => r.data.v["msgid"] = op.message_id
    /\ has_time => r.data.v["dlvtime"] = op.send_time
    /\ "CharsetURL" \in DOMAIN r.params
    /\ r.params["CharsetURL"] = "UTF8"

\* C16, as stated: the form of a send_sms request holds dstaddr and smbody,
\* msgid exactly when a message_id argument was passed and dlvtime exactly
\* when a send_time argument was passed, and nothing else; the query holds
\* CharsetURL=UTF8; the request is a POST to the single-send endpoint.
C16_OptionalFieldsWhenPassed ==
  (op.name = "send_sms" /\ Dispatched) =>
    SmsRequest(op.message_id # None, op.send_time # None)

\* C16, amended: msgid is in the form exactly when message_id is a non-empty
\* string, and dlvtime exactly when send_time is a non-empty string; an
\* empty string is treated like an argument left out.
C16_OptionalFieldsWhenNonEmpty ==
  (op.name = "send_sms" /\ Dispatched) =>
    SmsRequest(op.message_id \notin {None, <<>>},
               op.send_time \notin {None, <<>>})

\* send_sms called with an id and with an empty send_time
C16_Witness ==
  /\ op.name = "send_sms"
  /\ op.message_id = <<"x">>
  /\ op.send_time = <<>>
  /\ Dispatched
  /\ sent[1].data.v = [dstaddr |-> <<"t">>, smbody |-> <<"m">>, msgid |-> <<"x">>]

\* C17: the body of a valid send_batch_sms call reaches the session as a
\* str, the very text the encoder made (the lines joined by newlines), never
\* as a mapping of form fields; the request is a POST to the bulk-send
\* endpoint with Encoding_PostIn=UTF8 in the query.
C17_BatchBodyIsRawString ==
  (op.name = "send_batch_sms" /\ Dispatched) =>
    LET r == sent[1] IN
      /\ r.verb = "POST"
      /\ r.url = client.base_url \o "/api/mtk/SmBulkSend"
      /\ r.data.type = "str"
      /\ Len(batch_lines) = Len(op.messages)
      /\ r.data.v = join(batch_lines, <<NL>>)
      /\ "Encoding_PostIn" \in DOMAIN r.params
      /\ r.params["Encoding_PostIn"] = "UTF8"

\* a batch of two entries went out as one text of two lines
C17_Witness ==
  /\ op.name = "send_batch_sms"
  /\ Dispatched
  /\ Len(op.messages) = 2
  /\ sent[1].data.type = "str"
  /\ Cardinality({k \in 1..Len(sent[1].data.v) : sent[1].data.v[k] = NL}) = 1
  /\ sent[1].params["Encoding_PostIn"] = "UTF8"

\* C18: a query_message_status call with ids hands the session a GET to the
\* status-query endpoint without a body, whose query is the credentials and
\* msgid, the ids joined by ',' in the order given; query_account_balance
\* hands it a GET to the balance-query endpoint without a body, whose query
\* is the credentials alone.
C18_QueriesAreGetsWithoutBody ==
  /\ (op.name = "query_message_status" /\ Dispatched) =>
       LET r == sent[1] IN
         /\ r.verb = "GET"
         /\ r.url = client.base_url \o "/api/mtk/SmQueryGet"
         /\ r.data = NoData
         /\ r.params = [username |-> client.username,
                        password |-> client.password,
                        msgid |-> join(op.message_ids, <<",">>)]
  /\ (op.name = "query_account_balance" /\ Dispatched) =>
       LET r == sent[1] IN
         /\ r.verb = "GET"
         /\ r.url = client.base_url \o "/api/mtk/SmQuery"
         /\ r.data = NoData
         /\ r.params = [username |-> client.username,
                        password |-> client.password]

\* two ids were asked for, and went out joined in their order
C18_Witness ==
  /\ op.name = "query_message_status"
  /\ op.message_ids = <<<<"b", "7">>, <<"a">>>>
  /\ Dispatched
  /\ sent[1].params["msgid"] = <<"b", "7", ",", "a">>

\* the 1-based positions of the entries of the batch lacking 'to' or 'message'
Offenders == {n \in 1..Len(op.messages) : entry_incomplete(op.messages[n])}

FirstOffender == CHOOSE n \in Offenders : \A m \in Offenders : n <= m

\* C19: a non-empty batch with an entry lacking 'to' or 'message' is refused
\* with a ValueError naming one index: the position, counted from 0, of the
\* first such entry of the list, whatever that position is; the entries
\* before it were encoded and nothing was handed to the session.
C19_ErrorNamesFirstOffender ==
  /\ (/\ op.name = "send_batch_sms"
      /\ pc = "done"
      /\ outcome.kind = "ValueError"
      /\ op.messages # <<>>) =>
       /\ Offenders # {}
       /\ outcome.message = <<"Message at index ", str(FirstOffender - 1),
                              " must have 'to' and 'message' keys">>
       /\ Len(batch_lines) = FirstOffender - 1
       /\ sent = <<>>
  /\ (op.name = "send_batch_sms" /\ Dispatched) => Offenders = {}

\* both entries of a batch are incomplete, and the error names index 0
C19_Witness ==
  /\ op.name = "send_batch_sms"
  /\ pc = "done"
  /\ Offenders = {1, 2}
  /\ outcome.kind = "ValueError"
  /\ outcome.message[2] = <<"0">>

\* the positions of the trimmed lines that contain '=' and carry the key k
LinesWithKey(text, k) ==
  LET ls == TrimmedLines(text) IN
  {n \in 1..Len(ls) : contains(ls[n], "=") /\ KeyOf(ls[n]) = k}

Last(S) == CHOOSE n \in S : \A m \in S : m <= n

\* C20: when a key is on several lines of a body decoded as key=value, the
\* mapping has one entry for it, with the value of the last of these lines;
\* the mapping has as many entries as there are distinct keys, which is
\* fewer than there are lines with '=' as soon as a key is repeated.
C20_LastLineOfKeyWins ==
  DecodedAsKeyValue =>
    LET ls == TrimmedLines(response.text)
        eq == {n \in 1..Len(ls) : contains(ls[n], "=")}
        keys == {KeyOf(ls[n]) : n \in eq}
    IN /\ DOMAIN outcome.result = keys
       /\ \A k \in keys :
            outcome.result[k] = ValueOf(ls[Last(LinesWithKey(response.text, k))])
       /\ Cardinality(DOMAIN outcome.result) = Cardinality(keys)
       /\ Cardinality(keys) <= Cardinality(eq)
       /\ (\E m, n \in eq : m # n /\ KeyOf(ls[m]) = KeyOf(ls[n])) =>
            Cardinality(DOMAIN outcome.result) < Cardinality(eq)

\* the empty key is on two lines, with the values 'a' and '[': '[' is kept
C20_Witness ==
  /\ DecodedAsKeyValue
  /\ response.text = <<"=", "a", NL, "=", "[">>
  /\ outcome.result = (<<>> :> <<"[">>)

====
